---- MODULE Spec2Model ----
(***************************************************************************)
(* Session state machine of the YouTube summarizer (summarizer.py and      *)
(* summarizero2.py): the Streamlit script is re-run from top to bottom on  *)
(* every widget event; st.session_state survives between runs.  A widget   *)
(* rendered by one run stays on the page until the next run, so the user   *)
(* can only press what the last run rendered.  summary.py keeps no session *)
(* state (its summary is a local of the run) and has no Q&A part.          *)
(*                                                                         *)
(* Text is modelled as a sequence of one-character strings, so that        *)
(* str.strip, urlparse and parse_qs are computed character by character.   *)
(***************************************************************************)
EXTENDS Integers, Sequences, FiniteSets, TLC

VARIABLES
    variant,      \* which script of the repository is running
    youtube_url,  \* value of the "YouTube Video URL" text input
    summary,      \* st.session_state.summary
    qa_active,    \* st.session_state.qa_active
    qa_history,   \* st.session_state.qa_history
    form_shown,   \* the qa_form was rendered by the last script run
    done_shown,   \* the "Done" button was rendered by the last script run
    video_id,     \* local video_id of the last run (Unset when not assigned)
    last          \* what the last script run did: event, outcome, message, calls

vars == <<variant, youtube_url, summary, qa_active, qa_history,
          form_shown, done_shown, video_id, last>>

(***************************************************************************)
(* Bounds                                                                  *)
(***************************************************************************)
MaxHistory == 2
MaxParams == 2

(***************************************************************************)
(* Python values                                                           *)
(***************************************************************************)
\* Python's None; no text equals it because every element of a text is one character
None == <<"<None>">>
\* a local variable that the run has not assigned
Unset == <<"<unset>">>

\* truth value of a Python str-or-None in a condition ("if not video_id", "if summary")
Truthy(x) == x # None /\ x # <<>>

Whitespace == {" ", "\t", "\n"}

RECURSIVE LStrip(_)
LStrip(s) == IF s # <<>> /\ Head(s) \in Whitespace THEN LStrip(Tail(s)) ELSE s

RECURSIVE RStrip(_)
RStrip(s) == IF s # <<>> /\ s[Len(s)] \in Whitespace THEN RStrip(SubSeq(s, 1, Len(s) - 1)) ELSE s

\* str.strip()
Strip(s) == RStrip(LStrip(s))

\* the first position from i on where s holds c; 0 when there is none
RECURSIVE FindFrom(_, _, _)
FindFrom(s, c, i) == IF i > Len(s) THEN 0 ELSE IF s[i] = c THEN i ELSE FindFrom(s, c, i + 1)

\* str.find(c) with 1-based positions; 0 when c does not occur
Find(s, c) == FindFrom(s, c, 1)

\* the last position up to i where s holds c; 0 when there is none
RECURSIVE RFindFrom(_, _, _)
RFindFrom(s, c, i) == IF i < 1 THEN 0 ELSE IF s[i] = c THEN i ELSE RFindFrom(s, c, i - 1)

\* str.rfind(c) with 1-based positions; 0 when c does not occur
RFind(s, c) == RFindFrom(s, c, Len(s))

Take(s, n) == SubSeq(s, 1, n)
Drop(s, n) == SubSeq(s, n + 1, Len(s))

\* str.split(c): the pieces between the occurrences of c
RECURSIVE Split(_, _)
Split(s, c) == LET at == Find(s, c)
               IN IF at = 0 THEN <<s>> ELSE <<Take(s, at - 1)>> \o Split(Drop(s, at), c)

\* str.lower() on the letters that occur in the modelled URLs
LowerChar(c) == CASE c = "Y" -> "y" [] c = "O" -> "o" [] c = "U" -> "u" [] c = "T" -> "t"
                  [] c = "B" -> "b" [] c = "E" -> "e" [] c = "H" -> "h" [] c = "P" -> "p"
                  [] c = "S" -> "s" [] OTHER -> c

Lower(s) == [i \in 1..Len(s) |-> LowerChar(s[i])]

(***************************************************************************)
(* urllib.parse as used by extract_video_id                                *)
(***************************************************************************)
Letters == {"a", "b", "c", "e", "h", "m", "o", "p", "s", "t", "u", "v", "w", "x", "y",
            "B", "E", "H", "O", "P", "S", "T", "U", "Y"}
SchemeChars == Letters \cup {"+", "-", "."}

\* urlsplit: the scheme is cut off at the first ":" when everything before it is a scheme
HasScheme(url) == LET colon == Find(url, ":")
                  IN /\ colon > 1
                     /\ url[1] \in Letters
                     /\ \A i \in 1..(colon - 1) : url[i] \in SchemeChars

AfterScheme(url) == IF HasScheme(url) THEN Drop(url, Find(url, ":")) ELSE url

Scheme(url) == IF HasScheme(url) THEN Lower(Take(url, Find(url, ":") - 1)) ELSE <<>>

HasNetloc(rest) == Len(rest) >= 2 /\ rest[1] = "/" /\ rest[2] = "/"

\* _splitnetloc: the netloc ends at the first of "/", "?", "#" after the "//"
NetlocEnd(rest) ==
    IF \E i \in 3..Len(rest) : rest[i] \in {"/", "?", "#"}
    THEN CHOOSE i \in 3..Len(rest) : /\ rest[i] \in {"/", "?", "#"}
                                     /\ \A j \in 3..(i - 1) : rest[j] \notin {"/", "?", "#"}
    ELSE Len(rest) + 1

Netloc(url) == LET rest == AfterScheme(url)
               IN IF HasNetloc(rest) THEN SubSeq(rest, 3, NetlocEnd(rest) - 1) ELSE <<>>

AfterNetloc(url) == LET rest == AfterScheme(url)
                    IN IF HasNetloc(rest) THEN Drop(rest, NetlocEnd(rest) - 1) ELSE rest

\* the part before the fragment
BeforeFragment(s) == IF Find(s, "#") > 0 THEN Take(s, Find(s, "#") - 1) ELSE s

\* ParseResult.query
Query(url) == LET s == BeforeFragment(AfterNetloc(url))
              IN IF Find(s, "?") > 0 THEN Drop(s, Find(s, "?")) ELSE <<>>

\* the path before urlparse cuts the ";parameters" of the last segment
RawPath(url) == LET s == BeforeFragment(AfterNetloc(url))
                IN IF Find(s, "?") > 0 THEN Take(s, Find(s, "?") - 1) ELSE s

\* _splitparams: position of the first ";" of the last path segment, 0 when there is none
ParamsAt(p) == LET from == RFind(p, "/")
               IN IF \E i \in (from + 1)..Len(p) : p[i] = ";"
                  THEN CHOOSE i \in (from + 1)..Len(p) :
                           p[i] = ";" /\ \A j \in (from + 1)..(i - 1) : p[j] # ";"
                  ELSE 0

UsesParams == {<<"h", "t", "t", "p">>, <<"h", "t", "t", "p", "s">>, <<>>}

\* ParseResult.path
Path(url) == LET p == RawPath(url)
             IN IF Scheme(url) \in UsesParams /\ ParamsAt(p) > 0 THEN Take(p, ParamsAt(p) - 1) ELSE p

\* ParseResult.hostname: netloc without userinfo and port, lower-cased; None when empty
Hostname(url) ==
    LET netloc == Netloc(url)
        hostinfo == Drop(netloc, RFind(netloc, "@"))
        host == IF Find(hostinfo, ":") > 0 THEN Take(hostinfo, Find(hostinfo, ":") - 1) ELSE hostinfo
    IN IF host = <<>> THEN None ELSE Lower(host)

\* unquote(s.replace('+', ' ')) on texts without "%"
Unquote(s) == [i \in 1..Len(s) |-> IF s[i] = "+" THEN " " ELSE s[i]]

\* variant: parse_qsl called with keep_blank_values=True
KeepsField_KeepBlank(nv) == Find(nv, "=") > 0

\* parse_qsl keeps a "name=value" field only when its value is not blank
KeepsField(nv) == Find(nv, "=") > 0 /\ Len(nv) > Find(nv, "=")

FieldName(nv) == Unquote(Take(nv, Find(nv, "=") - 1))
FieldValue(nv) == Unquote(Drop(nv, Find(nv, "=")))

\* parse_qsl(qs): the (name, value) pairs of the fields it keeps, in order
parse_qsl(qs) == IF qs = <<>> THEN <<>>
                 ELSE LET fields == SelectSeq(Split(qs, "&"), KeepsField)
                      IN [i \in 1..Len(fields) |-> <<FieldName(fields[i]), FieldValue(fields[i])>>]

\* parse_qs(qs).get(name, [None])[0]: the first value parse_qs lists under name
FirstValue(qs, name) ==
    LET pairs == parse_qsl(qs)
        IsName(p) == p[1] = name
        hits == SelectSeq(pairs, IsName)
    IN IF hits = <<>> THEN None ELSE hits[1][2]

YOUTU_BE == <<"y", "o", "u", "t", "u", ".", "b", "e">>
YOUTUBE_COM == <<"y", "o", "u", "t", "u", "b", "e", ".", "c", "o", "m">>
WWW_YOUTUBE_COM == <<"w", "w", "w", ".">> \o YOUTUBE_COM

extract_video_id(url) ==
    IF Hostname(url) = YOUTU_BE THEN Drop(Path(url), 1)
    ELSE IF Hostname(url) \in {WWW_YOUTUBE_COM, YOUTUBE_COM} THEN FirstValue(Query(url), <<"v">>)
    ELSE None

(***************************************************************************)
(* Inputs: what the user types and what the two external services answer   *)
(***************************************************************************)
Variants == {"summarizer", "summarizero2"}

HTTPS == <<"h", "t", "t", "p", "s", ":", "/", "/">>
VIMEO_COM == <<"v", "i", "m", "e", "o", ".", "c", "o", "m">>

\* the URLs the user types during a session
SessionUrls == {<<>>,
                <<" ">>,
                HTTPS \o YOUTU_BE \o <<"/", "x">>,
                HTTPS \o YOUTU_BE \o <<"/">>,
                HTTPS \o WWW_YOUTUBE_COM \o <<"/", "w", "?", "v", "=", "y">>,
                HTTPS \o YOUTUBE_COM \o <<"/", "w", "?", "t", "=", "y">>,
                HTTPS \o VIMEO_COM \o <<"/", "x">>}

\* the questions the user submits: empty, whitespace only, and two real ones
Questions == {<<>>, <<" ">>, <<"q">>, <<" ", "r">>}

\* error texts of the exceptions the external calls raise
ErrTexts == {<<"e">>, <<"f">>}

\* caption fragments returned by YouTubeTranscriptApi.get_transcript
FragmentLists == {<<>>, << <<"h", "i">>, <<"y", "o">> >>}

\* message.content of the first choice returned by the summary completion
LLMTexts == {<<>>, <<"a">>, <<"b">>}

\* message.content of the first choice returned by the answer completion
AnswerTexts == {<<>>, <<"a">>}

Ok(v) == [ok |-> TRUE, val |-> v]
Fail(e) == [ok |-> FALSE, val |-> e]

\* outcomes of get_transcript: a fragment list or an exception
TranscriptResults == {Ok(f) : f \in FragmentLists} \cup {Fail(e) : e \in ErrTexts}

\* outcomes of client.chat.completions.create: a text or an exception
LLMResults == {Ok(t) : t \in LLMTexts} \cup {Fail(e) : e \in ErrTexts}
AnswerResults == {Ok(t) : t \in AnswerTexts} \cup {Fail(e) : e \in ErrTexts}

(***************************************************************************)
(* Helper functions of the scripts                                         *)
(***************************************************************************)
\* " ".join(texts)
RECURSIVE JoinSp(_)
JoinSp(texts) == IF texts = <<>> THEN <<>>
                 ELSE IF Len(texts) = 1 THEN texts[1]
                 ELSE texts[1] \o <<" ">> \o JoinSp(Tail(texts))

\* an exception: its class, whether its text starts with the classification hint
\* ("Could not retrieve transcript. This may be due to: ..."), and the underlying error text
Exc(class, hint, text) == [class |-> class, hint |-> hint, text |-> text]

\* fetch_transcript: summarizer.py lets the exception of the service through,
\* summarizero2.py wraps it in a RuntimeError that carries the hint
fetch_transcript(v, tres) ==
    IF tres.ok THEN [raised |-> FALSE, val |-> JoinSp(tres.val)]
    ELSE IF v = "summarizero2" THEN [raised |-> TRUE, val |-> Exc("RuntimeError", TRUE, tres.val)]
    ELSE [raised |-> TRUE, val |-> Exc("Exception", FALSE, tres.val)]

\* generate_summary / answer_question_from_summary: the text of the first choice,
\* or the exception of the chat completion (an openai error, not a RuntimeError)
chat_completion(lres) ==
    IF lres.ok THEN [raised |-> FALSE, val |-> lres.val]
    ELSE [raised |-> TRUE, val |-> Exc("Exception", FALSE, lres.val)]

(***************************************************************************)
(* One script run                                                          *)
(***************************************************************************)
\* what the run shows: the widget, the fixed prefix, and the exception text
\* (the leading cross-mark of the error messages is left out)
Msg(widget, prefix, hint, text) == [widget |-> widget, prefix |-> prefix, hint |-> hint, text |-> text]
NoMsg == Msg("none", "", FALSE, <<>>)

\* one entry of the run's trace: an external call (its argument, whether it returned,
\* and the value it returned or the text of the exception it raised) ...
Call(op, arg, r) == [op |-> op, arg |-> arg, returned |-> ~r.raised,
                     result |-> IF r.raised THEN r.val.text ELSE r.val]
\* ... or a write to st.session_state
Write(op) == [op |-> op, arg |-> <<>>, returned |-> TRUE, result |-> <<>>]

\* the state a run starts from: session state kept, locals and page cleared
RunStart == [summary |-> summary, qa_active |-> qa_active, qa_history |-> qa_history,
             video_id |-> Unset, trace |-> <<>>, message |-> NoMsg, raised |-> "none",
             form_shown |-> FALSE, done_shown |-> FALSE, halted |-> FALSE]

\* the except clauses of the Generate Summary handler
GenerateExcept(v, e) ==
    IF v = "summarizero2"
    THEN IF e.class = "RuntimeError" THEN Msg("error", "", e.hint, e.text)
         ELSE Msg("error", "An unexpected error occurred: ", e.hint, e.text)
    ELSE Msg("error", "An error occurred: ", e.hint, e.text)

\* variant: the new summary is appended to the old one and the history is reset
StoreSummary_Append(rs, text) ==
    [rs EXCEPT !.summary = @ \o text, !.qa_active = TRUE, !.qa_history = <<>>,
               !.trace = @ \o <<Write("set_summary"), Write("set_qa_active")>>]

\* the two assignments after generate_summary returned
StoreSummary(rs, text) ==
    [rs EXCEPT !.summary = text, !.qa_active = TRUE,
               !.trace = @ \o <<Write("set_summary"), Write("set_qa_active")>>]

\* variant: qa_active is set before the transcript is fetched
SpinnerBody_ActivateFirst(rs, v, tres, lres) ==
    LET t == fetch_transcript(v, tres)
        afterFetch == [rs EXCEPT !.qa_active = TRUE,
                                 !.trace = @ \o <<Write("set_qa_active"),
                                                  Call("get_transcript", rs.video_id, t)>>]
    IN IF t.raised
       THEN [afterFetch EXCEPT !.message = GenerateExcept(v, t.val), !.raised = "transcript"]
       ELSE LET c == chat_completion(lres)
                afterChat == [afterFetch EXCEPT !.trace = @ \o <<Call("chat_summary", t.val, c)>>]
            IN IF c.raised
               THEN [afterChat EXCEPT !.message = GenerateExcept(v, c.val), !.raised = "llm"]
               ELSE [afterChat EXCEPT !.summary = c.val, !.trace = @ \o <<Write("set_summary")>>]

\* the body under the spinner: fetch the transcript, then summarize it, then store
SpinnerBody(rs, v, tres, lres) ==
    LET t == fetch_transcript(v, tres)
        afterFetch == [rs EXCEPT !.trace = @ \o <<Call("get_transcript", rs.video_id, t)>>]
    IN IF t.raised
       THEN [afterFetch EXCEPT !.message = GenerateExcept(v, t.val), !.raised = "transcript"]
       ELSE LET c == chat_completion(lres)
                afterChat == [afterFetch EXCEPT !.trace = @ \o <<Call("chat_summary", t.val, c)>>]
            IN IF c.raised
               THEN [afterChat EXCEPT !.message = GenerateExcept(v, c.val), !.raised = "llm"]
               ELSE StoreSummary(afterChat, c.val)

\* variant: the test is "video_id is None", which lets the empty identifier through
IdUsable_NotNone(vid) == vid # None

\* "if not video_id" is false: the identifier is usable
IdUsable(vid) == Truthy(vid)

\* the Generate Summary handler
GenerateSummary(rs, v, url, tres, lres) ==
    IF ~Truthy(Strip(url))
    THEN [rs EXCEPT !.message = Msg("warning", "Please enter a YouTube video URL.", FALSE, <<>>)]
    ELSE LET withId == [rs EXCEPT !.video_id = extract_video_id(url)]
         IN IF ~IdUsable(withId.video_id)
            THEN [withId EXCEPT !.message = Msg("error", "Invalid YouTube URL format.", FALSE, <<>>)]
            ELSE SpinnerBody(withId, v, tres, lres)

\* variant: the Q&A interface is shown whenever there is a summary
QAInterface_SummaryOnly(rs) == Truthy(rs.summary)

\* the condition of the Q&A interface
QAInterface(rs) == rs.qa_active /\ Truthy(rs.summary)

\* variant: qa_history.insert(0, (user_question, answer))
AppendEntry_Front(h, q, a) == <<<<q, a>>>> \o h

\* qa_history.append((user_question, answer))
AppendEntry(h, q, a) == Append(h, <<q, a>>)

\* variant: a failed answer completion ends the Q&A session
GetAnswer_EndOnError(rs, q, lres) ==
    IF ~Truthy(Strip(q)) THEN rs
    ELSE LET c == chat_completion(lres)
             afterChat == [rs EXCEPT !.trace = @ \o <<Call("chat_answer", <<rs.summary, q>>, c)>>]
         IN IF c.raised
            THEN [afterChat EXCEPT !.message = Msg("exception", "", c.val.hint, c.val.text),
                                   !.raised = "llm", !.halted = TRUE, !.qa_active = FALSE]
            ELSE [afterChat EXCEPT !.qa_history = AppendEntry(@, q, c.val),
                                   !.trace = @ \o <<Write("append_history")>>]

\* the Get Answer handler; the exception of the chat completion is not caught,
\* so the run stops there and Streamlit shows the exception
GetAnswer(rs, q, lres) ==
    IF ~Truthy(Strip(q)) THEN rs
    ELSE LET c == chat_completion(lres)
             afterChat == [rs EXCEPT !.trace = @ \o <<Call("chat_answer", <<rs.summary, q>>, c)>>]
         IN IF c.raised
            THEN [afterChat EXCEPT !.message = Msg("exception", "", c.val.hint, c.val.text),
                                   !.raised = "llm", !.halted = TRUE]
            ELSE [afterChat EXCEPT !.qa_history = AppendEntry(@, q, c.val),
                                   !.trace = @ \o <<Write("append_history")>>]

\* variant: Done also forgets the summary
Done_ClearSummary(rs) ==
    [rs EXCEPT !.qa_active = FALSE, !.qa_history = <<>>, !.summary = <<>>,
               !.trace = @ \o <<Write("clear_qa_active"), Write("clear_history")>>,
               !.message = Msg("success", "Question & Answer session ended.", FALSE, <<>>)]

\* the Done handler
Done(rs) ==
    [rs EXCEPT !.qa_active = FALSE, !.qa_history = <<>>,
               !.trace = @ \o <<Write("clear_qa_active"), Write("clear_history")>>,
               !.message = Msg("success", "Question & Answer session ended.", FALSE, <<>>)]

\* the Q&A part of the script: form, Get Answer handler, Done button
QASection(rs, event, q, lres) ==
    IF ~QAInterface(rs) THEN rs
    ELSE LET withForm == [rs EXCEPT !.form_shown = TRUE]
             answered == IF event = "submit" THEN GetAnswer(withForm, q, lres) ELSE withForm
         IN IF answered.halted THEN answered
            ELSE LET withDone == [answered EXCEPT !.done_shown = TRUE]
                 IN IF event = "done" THEN Done(withDone) ELSE withDone

\* one run of the script from top to bottom, triggered by one widget event
ScriptRun(event, v, url, q, tres, lres) ==
    LET afterGenerate == IF event = "generate" THEN GenerateSummary(RunStart, v, url, tres, lres)
                         ELSE RunStart
    IN QASection(afterGenerate, event, q, lres)

\* the run's result becomes the next state
Becomes(rs, event, q) ==
    /\ summary' = rs.summary
    /\ qa_active' = rs.qa_active
    /\ qa_history' = rs.qa_history
    /\ form_shown' = rs.form_shown
    /\ done_shown' = rs.done_shown
    /\ video_id' = rs.video_id
    /\ last' = [event |-> event, question |-> q, message |-> rs.message,
                raised |-> rs.raised, trace |-> rs.trace]

(***************************************************************************)
(* The session                                                             *)
(***************************************************************************)
NoRun == [event |-> "start", question |-> <<>>, message |-> NoMsg, raised |-> "none", trace |-> <<>>]

\* the page after the first run of a new session
Init ==
    /\ variant \in Variants
    /\ youtube_url = <<>>
    /\ summary = <<>>
    /\ qa_active = FALSE
    /\ qa_history = <<>>
    /\ form_shown = FALSE
    /\ done_shown = FALSE
    /\ video_id = Unset
    /\ last = NoRun

\* the user changes the URL text input; the script re-runs with no button pressed
EditUrl ==
    \E u \in SessionUrls \ {youtube_url} :
        /\ youtube_url' = u
        /\ Becomes(ScriptRun("edit", variant, u, <<>>, Ok(<<>>), Ok(<<>>)), "edit", <<>>)
        /\ UNCHANGED variant

\* the user presses "Generate Summary"
ClickGenerate ==
    \E tres \in TranscriptResults, lres \in LLMResults :
        /\ Becomes(ScriptRun("generate", variant, youtube_url, <<>>, tres, lres), "generate", <<>>)
        /\ UNCHANGED <<variant, youtube_url>>

\* the user submits the question form shown on the page
SubmitQuestion ==
    /\ form_shown
    /\ Len(qa_history) < MaxHistory
    /\ \E q \in Questions, lres \in AnswerResults :
        /\ Becomes(ScriptRun("submit", variant, youtube_url, q, Ok(<<>>), lres), "submit", q)
        /\ UNCHANGED <<variant, youtube_url>>

\* the user presses the "Done" button shown on the page
ClickDone ==
    /\ done_shown
    /\ Becomes(ScriptRun("done", variant, youtube_url, <<>>, Ok(<<>>), Ok(<<>>)), "done", <<>>)
    /\ UNCHANGED <<variant, youtube_url>>

Next == EditUrl \/ ClickGenerate \/ SubmitQuestion \/ ClickDone

Spec == Init /\ [][Next]_vars

(***************************************************************************)
(* extract_video_id on its own                                             *)
(***************************************************************************)
\* texts[1] sep texts[2] sep ... : str.join
RECURSIVE Join(_, _)
Join(texts, sep) == IF texts = <<>> THEN <<>>
                    ELSE IF Len(texts) = 1 THEN texts[1]
                    ELSE texts[1] \o sep \o Join(Tail(texts), sep)

UrlPrefixes == {HTTPS, <<"H", "T", "T", "P", "S", ":", "/", "/">>, <<"/", "/">>, <<>>}
UrlHosts == {YOUTU_BE, <<"Y", "O", "U", "T", "U", ".", "B", "E">>, YOUTUBE_COM, WWW_YOUTUBE_COM,
             <<"m", ".">> \o YOUTUBE_COM, VIMEO_COM, <<"u", "@">> \o YOUTU_BE \o <<":", "4">>}
UrlPaths == {<<>>, <<"/">>, <<"/", "x">>, <<"/", "w">>}
UrlFields == {<<"v", "=", "x">>, <<"v", "=">>, <<"v">>, <<"t", "=", "x">>,
              <<"v", "=", "y">>, <<"v", "=", "x", "+", "y">>}
UrlQueries == {<<>>} \cup {<<"?">> \o Join(fs, <<"&">>) :
                              fs \in UNION {[1..n -> UrlFields] : n \in 0..MaxParams}}
UrlFragments == {<<>>, <<"#", "v", "=", "x">>}

\* the URLs extract_video_id is applied to
UrlInputs == {a \o h \o p \o q \o f : a \in UrlPrefixes, h \in UrlHosts, p \in UrlPaths,
                                       q \in UrlQueries, f \in UrlFragments}

InitUrl ==
    /\ variant \in Variants
    /\ youtube_url \in UrlInputs
    /\ summary = <<>>
    /\ qa_active = FALSE
    /\ qa_history = <<>>
    /\ form_shown = FALSE
    /\ done_shown = FALSE
    /\ video_id = Unset
    /\ last = NoRun

\* video_id = extract_video_id(youtube_url)
Extract ==
    /\ video_id = Unset
    /\ video_id' = extract_video_id(youtube_url)
    /\ UNCHANGED <<variant, youtube_url, summary, qa_active, qa_history, form_shown, done_shown, last>>

NextUrl == Extract

SpecUrl == InitUrl /\ [][NextUrl]_vars

(***************************************************************************)
(* Reading the record of the last run                                      *)
(***************************************************************************)
HasOp(l, op) == \E i \in 1..Len(l.trace) : l.trace[i].op = op
OpAt(l, op) == CHOOSE i \in 1..Len(l.trace) : l.trace[i].op = op
CountOp(l, op) == Cardinality({i \in 1..Len(l.trace) : l.trace[i].op = op})
ExternalOps == {"get_transcript", "chat_summary", "chat_answer"}
NoExternalCall(l) == \A i \in 1..Len(l.trace) : l.trace[i].op \notin ExternalOps

\* the three error kinds of the session, read off the run
IsInvalidInput(l) == l.event = "generate" /\ l.message.widget \in {"warning", "error"} /\ l.raised = "none"
IsTranscriptUnavailable(l) == l.raised = "transcript"
IsLLMRequestFailed(l) == l.raised = "llm"
Failed(l) == IsInvalidInput(l) \/ IsTranscriptUnavailable(l) \/ IsLLMRequestFailed(l)

GenerateSucceeded(l) == l.event = "generate" /\ ~Failed(l)
AnswerSucceeded(l) == l.event = "submit" /\ HasOp(l, "chat_answer") /\ ~Failed(l)

SessionState == <<summary, qa_active, qa_history>>

(***************************************************************************)
(* C1  Q&A is active only with a summary                                   *)
(***************************************************************************)
\* C1: in every reachable state, qa_active implies that summary is non-empty
C1_ActiveImpliesSummary == qa_active => summary # <<>>

(***************************************************************************)
(* C2  a failed action changes nothing                                     *)
(***************************************************************************)
\* C2: a run that ends in InvalidInput, TranscriptUnavailable or LLMRequestFailed
\* leaves summary, qa_active and qa_history as they were before the run
C2_AllOrNothing == [][Failed(last') => SessionState' = SessionState]_vars

\* a transcript failure met by a session that has a summary, active Q&A and a history
C2_Witness == /\ last.event = "generate" /\ IsTranscriptUnavailable(last)
              /\ qa_active /\ summary # <<>> /\ qa_history # <<>>

(***************************************************************************)
(* C3  a successful GenerateSummary overwrites summary and keeps history   *)
(***************************************************************************)
\* C3: a successful Generate Summary run sets summary to the text the summary
\* completion returned, sets qa_active, and leaves qa_history as it was
C3_GenerateOverwrites ==
    [][GenerateSucceeded(last') =>
          /\ HasOp(last', "chat_summary")
          /\ summary' = last'.trace[OpAt(last', "chat_summary")].result
          /\ qa_active'
          /\ qa_history' = qa_history]_vars

\* a second summary has replaced a first one while two earlier entries are still in the history
C3_Witness == /\ GenerateSucceeded(last) /\ summary = <<"b">>
              /\ Len(qa_history) = 2 /\ qa_history[1][1] # qa_history[2][1]
              /\ \E i \in 1..2 : qa_history[i][2] = <<"a">>

(***************************************************************************)
(* C4  EndSession                                                          *)
(***************************************************************************)
\* C4: a Done run started with qa_active true ends with qa_active false and an
\* empty qa_history, and leaves summary as it was
C4_EndSession ==
    [][(last'.event = "done" /\ qa_active) =>
          /\ ~qa_active'
          /\ qa_history' = <<>>
          /\ summary' = summary]_vars

\* Done has just ended an active session that keeps its summary
C4_Witness == /\ last.event = "done" /\ HasOp(last, "clear_qa_active")
              /\ ~qa_active /\ qa_history = <<>> /\ summary # <<>>

(***************************************************************************)
(* C5  AskQuestion is guarded                                              *)
(***************************************************************************)
\* C5: a Get Answer run calls the LLM or changes the session state only when
\* qa_active is true, summary is non-empty and the question is not blank; and no run
\* started with qa_active false makes qa_history longer
C5_AskGuarded ==
    [][/\ (last'.event = "submit" /\ (~NoExternalCall(last') \/ SessionState' # SessionState))
            => (qa_active /\ Truthy(summary) /\ Truthy(Strip(last'.question)))
       /\ Len(qa_history') > Len(qa_history) => qa_active]_vars

\* a real question submitted after Done (the form is still on the page): nothing happened
C5_Witness == /\ last.event = "submit" /\ Truthy(Strip(last.question))
              /\ ~qa_active /\ summary # <<>> /\ last.trace = <<>>

(***************************************************************************)
(* C6  a successful AskQuestion appends one entry                          *)
(***************************************************************************)
\* C6: a Get Answer run whose answer completion returned appends exactly the pair
\* (question, answer) to the end of qa_history and changes nothing else
C6_AppendsEntry ==
    [][AnswerSucceeded(last') =>
          /\ qa_history' = Append(qa_history,
                                  <<last'.question, last'.trace[OpAt(last', "chat_answer")].result>>)
          /\ summary' = summary
          /\ qa_active' = qa_active]_vars

\* two different questions answered in a row are in the history in the order asked
C6_Witness == /\ AnswerSucceeded(last) /\ Len(qa_history) = 2
              /\ qa_history[1] # qa_history[2]
              /\ qa_history[2][1] = last.question

(***************************************************************************)
(* C7  the session stays usable after an error                             *)
(***************************************************************************)
\* AskQuestion and EndSession are valid: the Q&A interface condition holds
QAValid == qa_active /\ Truthy(summary)

\* from the current state, Generate Summary with a good URL and working services activates Q&A
GenerateCanSucceed ==
    \A tres \in TranscriptResults, lres \in LLMResults :
        (tres.ok /\ lres.ok) =>
            LET rs == ScriptRun("generate", variant, HTTPS \o YOUTU_BE \o <<"/", "x">>, <<>>, tres, lres)
            IN rs.qa_active /\ rs.summary = lres.val /\ rs.raised = "none"

LLMFailureMessages == {GenerateExcept(variant, Exc("Exception", FALSE, e)) : e \in ErrTexts}

\* C8: a failed transcript call is reported with the classification hint and the
\* text of the underlying error, by a message no failed summary completion produces
C8_TranscriptUnavailable ==
    (last.event = "generate" /\ IsTranscriptUnavailable(last)) =>
        /\ last.message.hint
        /\ last.message.text = last.trace[OpAt(last, "get_transcript")].result
        /\ last.message \notin LLMFailureMessages

(***************************************************************************)
(* C9  extract_video_id against its reference definition                   *)
(***************************************************************************)
\* the "name=value" fields of the query, and the positions of those named v
QueryFields(url) == IF Query(url) = <<>> THEN <<>> ELSE Split(Query(url), "&")
NameOf(f) == IF Find(f, "=") > 0 THEN Unquote(Take(f, Find(f, "=") - 1)) ELSE Unquote(f)
ValueOf(f) == IF Find(f, "=") > 0 THEN Unquote(Drop(f, Find(f, "="))) ELSE <<>>
VFields(url) == {i \in 1..Len(QueryFields(url)) : NameOf(QueryFields(url)[i]) = <<"v">>}
VFilled(url) == {i \in VFields(url) : ValueOf(QueryFields(url)[i]) # <<>>}
Least(S) == CHOOSE i \in S : \A j \in S : i <= j

\* the reference definition as written: the first value of v, blank or not
RefFirstV(url) == IF VFields(url) = {} THEN None ELSE ValueOf(QueryFields(url)[Least(VFields(url))])
\* the reference definition as amended: the first value of v that is not blank
RefFirstFilledV(url) == IF VFilled(url) = {} THEN None ELSE ValueOf(QueryFields(url)[Least(VFilled(url))])

RefVideoId(url, firstV) ==
    IF Hostname(url) = YOUTU_BE THEN Drop(Path(url), 1)
    ELSE IF Hostname(url) \in {YOUTUBE_COM, WWW_YOUTUBE_COM} THEN firstV
    ELSE None

StartsWith(s, pre) == Len(s) >= Len(pre) /\ Take(s, Len(pre)) = pre
IdChars == {"x", "y", "v", "w", "t"}
IsId(s) == s # <<>> /\ \A i \in 1..Len(s) : s[i] \in IdChars

\* https://youtu.be/{id} gives {id}
ShortUrlGivesId ==
    LET pre == HTTPS \o YOUTU_BE \o <<"/">>
    IN (StartsWith(youtube_url, pre) /\ IsId(Drop(youtube_url, Len(pre))))
          => video_id = Drop(youtube_url, Len(pre))

\* https://www.youtube.com/w?v={id} and https://www.youtube.com/w?v={id}&... give {id}
WatchUrlGivesId ==
    LET pre == HTTPS \o WWW_YOUTUBE_COM \o <<"/", "w", "?", "v", "=">>
        rest == Drop(youtube_url, Len(pre))
        id == IF Find(rest, "&") > 0 THEN Take(rest, Find(rest, "&") - 1) ELSE rest
    IN (StartsWith(youtube_url, pre) /\ IsId(id)) => video_id = id

\* a URL of another host gives none
OtherHostGivesNone ==
    (\E h \in {VIMEO_COM, <<"m", ".">> \o YOUTUBE_COM} : StartsWith(youtube_url, HTTPS \o h))
        => video_id = None

\* C9 as stated: the result is the reference result with "first value of v" (a blank
\* first value counting as none either way)
C9_AgreesWithReference ==
    video_id # Unset =>
        LET ref == RefVideoId(youtube_url, RefFirstV(youtube_url))
        IN video_id = ref \/ (video_id = None /\ ref = <<>>)

\* C9 as amended: the result is the reference result with "first value of v that is not
\* blank", and the three URL shapes give what the claim says
C9_AgreesWithAmendedReference ==
    video_id # Unset =>
        /\ video_id = RefVideoId(youtube_url, RefFirstFilledV(youtube_url))
        /\ ShortUrlGivesId
        /\ WatchUrlGivesId
        /\ OtherHostGivesNone

\* a query whose first v is blank and whose second v is x has been extracted
C9_Witness == /\ video_id = <<"x">>
              /\ Hostname(youtube_url) = WWW_YOUTUBE_COM
              /\ Query(youtube_url) = <<"v", "=", "&", "v", "=", "x">>

(***************************************************************************)
(* C10  order and gating of the external calls of GenerateSummary          *)
(***************************************************************************)
\* entry i of the trace is op and it returned
ReturnedAt(l, i, op) == l.trace[i].op = op /\ l.trace[i].returned

\* C10: in a Generate Summary run the transcript call is made only for a non-blank
\* URL with a non-empty identifier, the summary completion only after the transcript
\* call returned, the writes only after the completion returned, each call at most
\* once; and summary and qa_active change only by those writes
C10_CallsOrderedAndGated ==
    [][last'.event = "generate" =>
          LET l == last'
          IN /\ CountOp(l, "get_transcript") <= 1
             /\ CountOp(l, "chat_summary") <= 1
             /\ ~HasOp(l, "chat_answer")
             /\ \A i \in 1..Len(l.trace) :
                   /\ l.trace[i].op = "get_transcript" =>
                         /\ Truthy(Strip(youtube_url))
                         /\ Truthy(extract_video_id(youtube_url))
                         /\ l.trace[i].arg = extract_video_id(youtube_url)
                   /\ l.trace[i].op = "chat_summary" =>
                         \E j \in 1..(i - 1) : ReturnedAt(l, j, "get_transcript")
                   /\ l.trace[i].op \in {"set_summary", "set_qa_active"} =>
                         \E j \in 1..(i - 1) : ReturnedAt(l, j, "chat_summary")
             /\ summary' # summary => HasOp(l, "set_summary")
             /\ qa_active' # qa_active => HasOp(l, "set_qa_active")]_vars

\* https://youtu.be/ (empty identifier) was submitted and no call was made
C10_Witness == /\ last.event = "generate"
               /\ youtube_url = HTTPS \o YOUTU_BE \o <<"/">>
               /\ video_id = <<>>
               /\ last.trace = <<>>
               /\ last.message.prefix = "Invalid YouTube URL format."

====
